---- MODULE Spec2Model ----
(***************************************************************************)
(* make-admin.py: a one-shot command-line script that promotes the user    *)
(* whose email is given on the command line to the "admin" role in the     *)
(* `users` collection of a MongoDB database.                               *)
(*                                                                         *)
(* The model holds the process (its position, its locals, its exit code),  *)
(* the `users` collection, and the other parties that write to the         *)
(* collection while the script runs.  Strings that the script transforms   *)
(* (the email, through str.lower) are sequences of characters.             *)
(***************************************************************************)
EXTENDS Naturals, Sequences, FiniteSets

VARIABLES
    users,      \* the `users` collection, in natural order: a sequence of documents
    users0,     \* the collection as it was when the current process started
    argv,       \* sys.argv of the current process
    mongo_uri,  \* what os.getenv('MONGODB_URI') returns
    pc,         \* position of the process
    client,     \* the local `client`: "unbound", "open" or "closed"
    user,       \* the local `user`: None, or <<doc>> as returned by find_one
    success,    \* the value make_admin returns: "unset", then "True" or "False"
    exitCode,   \* the process's exit status: "running", then "0" or "1"
    outcome,    \* the branch by which make_admin left its try block ("none" before)
    ops,        \* calls this process has made: [connects, lookups, updates, closes]
    modified,   \* number of documents this process's update modified on the server
    touched,    \* another party wrote to the collection after this process's last
                \* database operation
    runs,       \* processes started so far, one after the other, on the same email
    prior,      \* the earlier processes of this sequence: [ok, updates, modified]
    looked      \* positions of the documents the lookups of this sequence returned,
                \* since another party last wrote to the collection

vars == <<users, users0, argv, mongo_uri, pc, client, user, success, exitCode,
          outcome, ops, modified, touched, runs, prior, looked>>

(***************************************************************************)
(* Bounds                                                                  *)
(***************************************************************************)
MaxDocs == 2    \* documents the collection holds at most
MaxRuns == 2    \* consecutive invocations of the script

(***************************************************************************)
(* Data                                                                    *)
(***************************************************************************)
LowerEmail == <<"u", "@", "x">>
MixedEmail == <<"U", "@", "X">>
OtherEmail == <<"v", "@", "x">>
Emails == {LowerEmail, MixedEmail, OtherEmail}

NoField == "<absent>"
Roles == {"admin", "instructor", "student", NoField}
Names == {"Ann"}

Docs == [email : Emails, role : Roles, firstName : Names]

None == << >>

Collections == UNION {[1..n -> Docs] : n \in 0..MaxDocs}

Uris == {NoField, "", "mongodb://host/db"}

Script == <<"make-admin.py">>

\* the email used as typed
asTyped(s) == s

\* str.lower(), character by character
LowerChar(c) ==
    CASE c = "U" -> "u"
      [] c = "X" -> "x"
      [] c = "V" -> "v"
      [] OTHER -> c

lower(s) == [i \in 1..Len(s) |-> LowerChar(s[i])]

email == argv[2]

Min(S) == CHOOSE m \in S : \A n \in S : m <= n

\* position of the first document the filter {'email': key} matches, 0 if none
FirstMatch(coll, key) ==
    LET S == {i \in DOMAIN coll : coll[i].email = key}
    IN  IF S = {} THEN 0 ELSE Min(S)

\* db.users.find_one({'email': key})
find_one(coll, key) ==
    LET i == FirstMatch(coll, key)
    IN  IF i = 0 THEN None ELSE <<coll[i]>>

\* a comparison that no stored role satisfies
IsAdminMisspelt(doc) == doc.role = "Admin"

\* user.get('role') == 'admin'
IsAdmin(doc) == doc.role = "admin"

\* db.users.replace_one({'email': key}, {'email': key, 'role': 'admin'})
replace_one(coll, key) ==
    LET i == FirstMatch(coll, key)
    IN  IF i = 0
        THEN [users |-> coll, modified_count |-> 0]
        ELSE [users |-> [coll EXCEPT
                            ![i] = [email |-> key, role |-> "admin", firstName |-> NoField]],
              modified_count |-> 1]

\* db.users.update_one({'email': key}, {'$set': {'role': 'admin'}})
update_one(coll, key) ==
    LET i == FirstMatch(coll, key)
    IN  IF i = 0
        THEN [users |-> coll, modified_count |-> 0]
        ELSE IF coll[i].role = "admin"
        THEN [users |-> coll, modified_count |-> 0]
        ELSE [users |-> [coll EXCEPT ![i].role = "admin"], modified_count |-> 1]

NoOps == [connects |-> 0, lookups |-> 0, updates |-> 0, closes |-> 0]

(***************************************************************************)
(* Initial states                                                          *)
(***************************************************************************)
NoPrior == [ok |-> FALSE, updates |-> 0, modified |-> 0]

ProcessStart ==
    /\ pc = "MAIN"
    /\ client = "unbound"
    /\ user = None
    /\ success = "unset"
    /\ exitCode = "running"
    /\ outcome = "none"
    /\ ops = NoOps
    /\ modified = 0
    /\ touched = FALSE
    /\ runs = 1
    /\ prior = NoPrior
    /\ looked = {}
    /\ mongo_uri \in Uris
    /\ argv \in {Script} \cup {Script \o <<e>> : e \in Emails}

\* the script runs while other parties write to the collection: whatever the
\* collection holds when the script reads it is their doing
Init ==
    /\ ProcessStart
    /\ users = << >>
    /\ users0 = users

\* the script runs alone, on a collection that holds anything
InitSolo ==
    /\ ProcessStart
    /\ users \in Collections
    /\ users0 = users

(***************************************************************************)
(* The script                                                              *)
(***************************************************************************)
Bump(field) == [ops EXCEPT ![field] = @ + 1]

\* lines 60-67: the usage check, then the call of make_admin(sys.argv[1])
Main ==
    /\ pc = "MAIN"
    /\ IF Len(argv) < 2
       THEN /\ pc' = "EXITED"
            /\ exitCode' = "1"
       ELSE /\ pc' = "START"
            /\ exitCode' = exitCode
    /\ UNCHANGED <<users, users0, argv, mongo_uri, client, user, success,
                   outcome, ops, modified, touched, runs, prior, looked>>

\* a finally block that closes nothing
closeNever(c) == c

\* lines 56-58: if 'client' in locals(): client.close()
close(c) == IF c = "unbound" THEN c ELSE "closed"

\* the finally block, entered with the calls `o` made so far
finally(o) ==
    /\ client' = close(client)
    /\ ops' = IF client = "unbound" THEN o ELSE [o EXCEPT !.closes = @ + 1]
    /\ pc' = "CONNECTION_CLOSED"

\* no except clause: the exception leaves make_admin through the finally
\* block and ends the process
exceptEscapes(o) ==
    /\ outcome' = "EXCEPTION"
    /\ success' = success
    /\ client' = close(client)
    /\ ops' = IF client = "unbound" THEN o ELSE [o EXCEPT !.closes = @ + 1]
    /\ pc' = "EXITED"

\* lines 53-58: the exception is caught, its message printed, False returned
\* through the finally block
except(o) ==
    /\ outcome' = "EXCEPTION"
    /\ success' = "False"
    /\ finally(o)

\* no check of the URI
UriNeverMissing(uri) == FALSE

\* `not mongo_uri`: None and the empty string
UriMissing(uri) == uri \in {NoField, ""}

\* lines 13-16, and 56-58 when the URI is missing
GetEnv ==
    /\ pc = "START"
    /\ IF UriMissing(mongo_uri)
       THEN /\ outcome' = "CONFIG_MISSING"
            /\ success' = "False"
            /\ finally(ops)
       ELSE /\ pc' = "CONFIG_RESOLVED"
            /\ UNCHANGED <<outcome, success, client, ops>>
    /\ UNCHANGED <<users, users0, argv, mongo_uri, user, exitCode, modified,
                   touched, runs, prior, looked>>

\* lines 18-21: MongoClient(mongo_uri, serverSelectionTimeoutMS=5000) and
\* client.get_default_database() return
Connect ==
    /\ pc = "CONFIG_RESOLVED"
    /\ client' = "open"
    /\ ops' = Bump("connects")
    /\ pc' = "CONNECTED"
    /\ UNCHANGED <<users, users0, argv, mongo_uri, user, success, exitCode,
                   outcome, modified, touched, runs, prior, looked>>

\* line 18: MongoClient raises (a malformed URI); `client` is never bound
MongoClientRaises ==
    /\ pc = "CONFIG_RESOLVED"
    /\ except(ops)
    /\ UNCHANGED <<users, users0, argv, mongo_uri, user, exitCode, modified,
                   touched, runs, prior, looked>>

\* line 19: get_default_database raises (the URI names no database), with
\* `client` bound by line 18
GetDefaultDatabaseRaises ==
    /\ pc = "CONFIG_RESOLVED"
    /\ outcome' = "EXCEPTION"
    /\ success' = "False"
    /\ client' = close("open")
    /\ ops' = [ops EXCEPT !.connects = @ + 1, !.closes = @ + 1]
    /\ pc' = "CONNECTION_CLOSED"
    /\ UNCHANGED <<users, users0, argv, mongo_uri, user, exitCode, modified,
                   touched, runs, prior, looked>>

\* line 24: db.users.find_one({'email': email.lower()}) returns
FindOne ==
    /\ pc = "CONNECTED"
    /\ user' = find_one(users, lower(email))
    /\ looked' = looked \cup ({FirstMatch(users, lower(email))} \ {0})
    /\ ops' = Bump("lookups")
    /\ touched' = FALSE
    /\ pc' = "RECORD_LOOKED_UP"
    /\ UNCHANGED <<users, users0, argv, mongo_uri, client, success, exitCode,
                   outcome, modified, runs, prior>>

\* line 24: find_one raises (no server within 5000 ms, authentication, ...)
FindOneRaises ==
    /\ pc = "CONNECTED"
    /\ except(Bump("lookups"))
    /\ UNCHANGED <<users, users0, argv, mongo_uri, user, exitCode, modified,
                   touched, runs, prior, looked>>

\* the missing user is created as an admin
NotFoundUpserts ==
    /\ pc = "RECORD_LOOKED_UP"
    /\ user = None
    /\ users' = IF Len(users) < MaxDocs
                THEN Append(users, [email |-> lower(email), role |-> "admin",
                                    firstName |-> "Ann"])
                ELSE users
    /\ pc' = "NOT_FOUND"
    /\ outcome' = "NOT_FOUND"
    /\ success' = "False"
    /\ UNCHANGED <<users0, argv, mongo_uri, client, user, exitCode, ops,
                   modified, touched, runs, prior, looked>>

\* lines 26-29
NotFound ==
    /\ pc = "RECORD_LOOKED_UP"
    /\ user = None
    /\ pc' = "NOT_FOUND"
    /\ outcome' = "NOT_FOUND"
    /\ success' = "False"
    /\ UNCHANGED <<users, users0, argv, mongo_uri, client, user, exitCode, ops,
                   modified, touched, runs, prior, looked>>

\* lines 31-36
AlreadyAdmin ==
    /\ pc = "RECORD_LOOKED_UP"
    /\ user # None
    /\ IsAdmin(user[1])
    /\ pc' = "ALREADY_ADMIN"
    /\ outcome' = "ALREADY_ADMIN"
    /\ success' = "True"
    /\ UNCHANGED <<users, users0, argv, mongo_uri, client, user, exitCode, ops,
                   modified, touched, runs, prior, looked>>

\* the modification count is not looked at
ReportedUnchecked(result) == "UPDATED"

\* lines 44-51: result.modified_count > 0
Reported(result) == IF result.modified_count > 0 THEN "UPDATED" ELSE "UPDATE_FAILED"

\* an update that modified nothing sends the script back to the lookup
UpdateOneRetries ==
    /\ pc = "RECORD_LOOKED_UP"
    /\ user # None
    /\ ~IsAdmin(user[1])
    /\ LET result == update_one(users, lower(email))
       IN  /\ users' = result.users
           /\ modified' = result.modified_count
           /\ pc' = IF result.modified_count > 0 THEN "UPDATED" ELSE "CONNECTED"
           /\ outcome' = IF result.modified_count > 0 THEN "UPDATED" ELSE outcome
           /\ success' = IF result.modified_count > 0 THEN "True" ELSE success
    /\ ops' = Bump("updates")
    /\ touched' = FALSE
    /\ UNCHANGED <<users0, argv, mongo_uri, client, user, exitCode, runs, prior,
                   looked>>

\* lines 39-51: update_one returns; its modified_count decides the result
UpdateOne ==
    /\ pc = "RECORD_LOOKED_UP"
    /\ user # None
    /\ ~IsAdmin(user[1])
    /\ LET result == update_one(users, lower(email))
       IN  /\ users' = result.users
           /\ modified' = result.modified_count
           /\ pc' = Reported(result)
           /\ outcome' = Reported(result)
           /\ success' = IF Reported(result) = "UPDATED" THEN "True" ELSE "False"
    /\ ops' = Bump("updates")
    /\ touched' = FALSE
    /\ UNCHANGED <<users0, argv, mongo_uri, client, user, exitCode, runs, prior,
                   looked>>

\* lines 39-42: update_one raises (permission denied, connection lost, ...);
\* the server has applied the write or has not
UpdateOneRaises ==
    /\ pc = "RECORD_LOOKED_UP"
    /\ user # None
    /\ ~IsAdmin(user[1])
    /\ \E applied \in BOOLEAN :
          LET result == update_one(users, lower(email))
          IN  /\ users' = IF applied THEN result.users ELSE users
              /\ modified' = IF applied THEN result.modified_count ELSE 0
    /\ touched' = FALSE
    /\ except(Bump("updates"))
    /\ UNCHANGED <<users0, argv, mongo_uri, user, exitCode, runs, prior, looked>>

\* the branches of the try block that end in a return statement
Returns == {"NOT_FOUND", "ALREADY_ADMIN", "UPDATED", "UPDATE_FAILED"}

\* lines 56-58, entered from a return statement of lines 29, 36, 48, 51
Finally ==
    /\ pc \in Returns
    /\ finally(ops)
    /\ UNCHANGED <<users, users0, argv, mongo_uri, user, success, exitCode,
                   outcome, modified, touched, runs, prior, looked>>

\* make_admin returns `success` to line 67
Return ==
    /\ pc = "CONNECTION_CLOSED"
    /\ pc' = "END"
    /\ UNCHANGED <<users, users0, argv, mongo_uri, client, user, success,
                   exitCode, outcome, ops, modified, touched, runs, prior, looked>>

\* sys.exit(0) whatever make_admin returned
ExitZero(ok) == "0"

\* line 68: 0 if success else 1
ExitStatus(ok) == IF ok = "True" THEN "0" ELSE "1"

\* line 68: sys.exit
Exit ==
    /\ pc = "END"
    /\ exitCode' = ExitStatus(success)
    /\ pc' = "EXITED"
    /\ UNCHANGED <<users, users0, argv, mongo_uri, client, user, success,
                   outcome, ops, modified, touched, runs, prior, looked>>

\* the script is run again, on an email that differs from the last one in
\* letter case at most, with the same .env file
Restart ==
    /\ pc = "EXITED"
    /\ Len(argv) = 2
    /\ runs < MaxRuns
    /\ argv' \in {Script \o <<e>> : e \in {x \in Emails : lower(x) = lower(email)}}
    /\ users0' = users
    /\ pc' = "MAIN"
    /\ client' = "unbound"
    /\ user' = None
    /\ success' = "unset"
    /\ exitCode' = "running"
    /\ outcome' = "none"
    /\ ops' = NoOps
    /\ modified' = 0
    /\ runs' = runs + 1
    /\ prior' = [ok |-> prior.ok \/ success = "True",
                 updates |-> prior.updates + ops.updates,
                 modified |-> prior.modified + modified]
    /\ UNCHANGED <<users, mongo_uri, touched, looked>>

Step ==
    \/ Main
    \/ GetEnv
    \/ Connect
    \/ MongoClientRaises
    \/ GetDefaultDatabaseRaises
    \/ FindOne
    \/ FindOneRaises
    \/ NotFound
    \/ AlreadyAdmin
    \/ UpdateOne
    \/ UpdateOneRaises
    \/ Finally
    \/ Return
    \/ Exit

(***************************************************************************)
(* The other parties that own the collection                               *)
(***************************************************************************)
Remove(coll, i) == [j \in 1..(Len(coll) - 1) |-> IF j < i THEN coll[j] ELSE coll[j + 1]]

\* a write by another party while the script runs: the positions noted
\* before it no longer identify records
Written ==
    /\ pc # "EXITED"
    /\ touched' = TRUE
    /\ looked' = {}
    /\ UNCHANGED <<users0, argv, mongo_uri, pc, client, user, success, exitCode,
                   outcome, ops, modified, runs, prior>>

EnvInsert ==
    /\ Len(users) < MaxDocs
    /\ \E d \in Docs : users' = Append(users, d)
    /\ Written

EnvDelete ==
    /\ \E i \in DOMAIN users : users' = Remove(users, i)
    /\ Written

EnvSetRole ==
    /\ \E i \in DOMAIN users : \E r \in Roles \ {users[i].role} :
          users' = [users EXCEPT ![i].role = r]
    /\ Written

Env ==
    \/ EnvInsert
    \/ EnvDelete
    \/ EnvSetRole

(***************************************************************************)
(* Specifications                                                          *)
(***************************************************************************)
\* one run of the script, with other parties writing to the collection
Next ==
    \/ Step
    \/ Env

Spec == Init /\ [][Next]_vars

\* the script run alone, MaxRuns times in a row
NextSolo ==
    \/ Step
    \/ Restart

SoloSpec == InitSolo /\ [][NextSolo]_vars

\* every call the script makes returns or raises, and the script is one
\* sequential process: its next statement is eventually executed
FairSpec == Spec /\ WF_vars(Step)

(***************************************************************************)
(* Properties of the script run alone (SoloSpec)                           *)
(***************************************************************************)
\* the first record the lookup of this process matched, or would have
\* matched, in the collection as the process found it
target0 == FirstMatch(users0, lower(email))

Elevated(coll, i) == [coll EXCEPT ![i].role = "admin"]

Failed == outcome \in {"CONFIG_MISSING", "EXCEPTION"}

\* C1, as stated: whenever make_admin(e) has returned, every record with
\* email e whose role was not "admin" has role "admin", and nothing else of
\* the collection has changed.
C1_Original ==
    pc = "END" =>
        \A i \in DOMAIN users0 :
            (users0[i].email = lower(email) /\ users0[i].role # "admin")
                => users = Elevated(users0, i)

\* C1, amended: when the connection string is present and no database call
\* raises, make_admin(e) on a collection whose first record with email
\* lower(e) has a role other than "admin" (or none) returns True with that
\* record's role set to "admin" and nothing else changed; in every run,
\* whatever its outcome, the collection is left as found or with exactly
\* that change.
C1_Elevation ==
    pc = "END" =>
        /\ users = users0 \/ (target0 # 0 /\ users = Elevated(users0, target0))
        /\ (~Failed /\ target0 # 0 /\ users0[target0].role # "admin")
              => /\ outcome = "UPDATED"
                 /\ success = "True"
                 /\ users = Elevated(users0, target0)
                 /\ users # users0

\* a record without a role field is elevated, the record beside it untouched
C1_Witness ==
    /\ pc = "END"
    /\ outcome = "UPDATED"
    /\ Len(users0) = 2
    /\ target0 = 2
    /\ users0[2].role = NoField
    /\ users0[1].role = "student"
    /\ users[2].role = "admin"

\* C2, as stated: a record found already admin is left alone and reported
\* as success, and two runs in a row issue at most one write in total.
C2_Original ==
    /\ (outcome = "ALREADY_ADMIN" => ops.updates = 0 /\ users = users0 /\ success = "True")
    /\ (runs <= 2 => prior.updates + ops.updates <= 1)

\* C2, amended: a record found already admin is left alone and reported as
\* success without any update; runs in a row on the same email modify at
\* most one record, once, in total; a run that follows a successful run
\* issues no update; and a second update is issued only after an update
\* that raised without modifying anything.
C2_Idempotent ==
    /\ ((user # None /\ user[1].role = "admin")
          => /\ ops.updates = 0
             /\ users = users0
             /\ pc \in {"RECORD_LOOKED_UP", "ALREADY_ADMIN", "CONNECTION_CLOSED",
                        "END", "EXITED"}
             /\ (pc # "RECORD_LOOKED_UP" => outcome = "ALREADY_ADMIN" /\ success = "True"))
    /\ prior.modified + modified <= 1
    /\ (prior.ok => ops.updates = 0)
    /\ ((prior.updates > 0 /\ ops.updates > 0) => (prior.modified = 0 /\ ~prior.ok))

\* the second run in a row finds the record the first one elevated
C2_Witness ==
    /\ runs = 2
    /\ pc = "END"
    /\ prior.ok
    /\ prior.modified = 1
    /\ outcome = "ALREADY_ADMIN"
    /\ success = "True"
    /\ ops.updates = 0

\* C3: when the lookup finds no record, no update is issued, the collection
\* is what it was and make_admin returns False.
C3_NoOpOnMiss ==
    ((pc = "RECORD_LOOKED_UP" /\ user = None) \/ outcome = "NOT_FOUND")
        => /\ ops.updates = 0
           /\ modified = 0
           /\ users = users0
           /\ (pc # "RECORD_LOOKED_UP" => success = "False")
           /\ (pc = "EXITED" => exitCode = "1")

\* the lookup misses although the collection holds the email as typed
C3_Witness ==
    /\ pc = "END"
    /\ outcome = "NOT_FOUND"
    /\ email = MixedEmail
    /\ \E i \in DOMAIN users : users[i].email = MixedEmail /\ users[i].role = "instructor"

\* C8: the lookup and the update match on the lowercased email: what
\* "U@X" finds and elevates is the first record stored as "u@x", never a
\* record stored as "U@X", and runs on emails that differ in letter case
\* only look up one and the same record.
C8_CaseNormalization ==
    LET folded == IF email = OtherEmail THEN OtherEmail ELSE LowerEmail
        hits == {i \in DOMAIN users0 : users0[i].email = folded}
    IN  (Len(argv) = 2 /\ ops.lookups = 1 /\ outcome # "EXCEPTION")
            => /\ (hits = {} <=> user = None)
               /\ (user # None => user[1].email = folded)
               /\ \A i \in DOMAIN users0 :
                     users[i] # users0[i] => (users0[i].email = folded /\ i \in looked)
               /\ Cardinality(looked) <= 1
               /\ \A i \in looked : users[i].email = folded

\* make_admin("U@X") elevates the record stored as "u@x"
C8_Witness ==
    /\ pc = "END"
    /\ email = MixedEmail
    /\ outcome = "UPDATED"
    /\ users0[1].email = LowerEmail
    /\ users0[1].role = "instructor"
    /\ users[1].role = "admin"
    /\ looked = {1}

(***************************************************************************)
(* Properties of one run among other writers (Spec, FairSpec)              *)
(***************************************************************************)
\* the record an operation on the email would match now
target == FirstMatch(users, lower(email))

AfterReturn == {"CONNECTION_CLOSED", "END", "EXITED"}

\* C4: however make_admin ends, the client it created, if it created one,
\* is closed, once, when make_admin returns, and is open only inside the
\* try block.
C4_ResourceRelease ==
    /\ ops.connects <= 1
    /\ ops.closes <= ops.connects
    /\ (client = "unbound" <=> ops.connects = 0)
    /\ (client = "open" => pc \in {"CONNECTED", "RECORD_LOOKED_UP"} \cup Returns)
    /\ (ops.closes > 0 => pc \in AfterReturn)
    /\ (pc \in AfterReturn => (client # "open" /\ ops.closes = ops.connects))

\* an exception raised by the update, with the client closed on return
C4_Witness ==
    /\ pc = "END"
    /\ outcome = "EXCEPTION"
    /\ ops.updates = 1
    /\ client = "closed"
    /\ ops.closes = 1

\* C5: with MONGODB_URI absent (or empty) make_admin returns False at once:
\* no client is created, no lookup and no update is issued, nothing is
\* closed.
C5_ConfigGate ==
    mongo_uri \in {NoField, ""} =>
        /\ ops = NoOps
        /\ client = "unbound"
        /\ user = None
        /\ modified = 0
        /\ pc \in {"MAIN", "START"} \cup AfterReturn
        /\ (pc \in {"CONNECTION_CLOSED", "END"}
              => (outcome = "CONFIG_MISSING" /\ success = "False"))
        /\ (pc = "EXITED" => exitCode = "1")

\* the URI is absent while the collection holds the record asked for
C5_Witness ==
    /\ pc = "END"
    /\ mongo_uri = NoField
    /\ success = "False"
    /\ target # 0
    /\ users[target].role = "instructor"

\* C6: the exit status is 0 exactly when the update reported a modification
\* or the user was found to be an admin already, and 1 otherwise; without
\* the email argument the process exits 1 and make_admin is never called.
C6_ExitStatus ==
    /\ (pc # "EXITED" <=> exitCode = "running")
    /\ (pc = "EXITED" =>
          /\ exitCode \in {"0", "1"}
          /\ (exitCode = "0" <=> outcome \in {"UPDATED", "ALREADY_ADMIN"})
          /\ (outcome = "UPDATED" => (ops.updates = 1 /\ modified > 0))
          /\ (outcome = "ALREADY_ADMIN" => (user # None /\ user[1].role = "admin"))
          /\ (Len(argv) < 2 => /\ exitCode = "1"
                               /\ outcome = "none"
                               /\ success = "unset"
                               /\ ops = NoOps
                               /\ client = "unbound"))

\* exit status 1 after an update that modified nothing
C6_Witness ==
    /\ pc = "EXITED"
    /\ outcome = "UPDATE_FAILED"
    /\ exitCode = "1"

\* C7, as stated: at the moment make_admin returns True the record with the
\* email has role "admin", whatever other parties did during the run.
C7_Original ==
    [][(pc = "CONNECTION_CLOSED" /\ pc' = "END" /\ success' = "True")
          => (target # 0 /\ users[target].role = "admin")]_vars

\* C7, amended: when make_admin returns True the record with the email has
\* role "admin", provided no other party has written to the collection
\* since the run's last database operation (the lookup that found an admin,
\* or the update).
C7_SuccessMeansAdmin ==
    (pc \in {"ALREADY_ADMIN", "UPDATED", "CONNECTION_CLOSED", "END", "EXITED"}
        /\ success = "True" /\ ~touched)
            => (target # 0 /\ users[target].role = "admin")

\* a successful update of one of two records other parties had stored
C7_Witness ==
    /\ pc = "END"
    /\ success = "True"
    /\ outcome = "UPDATED"
    /\ ~touched
    /\ Len(users) = 2
    /\ users[target].role = "admin"

\* C9: a process issues at most one lookup and at most one update, the
\* update only after its lookup returned a record whose role was not
\* "admin"; an update that modified nothing ends the run in failure, with
\* no second lookup and no second update.
C9_NoRetry ==
    /\ ops.lookups <= 1
    /\ ops.updates <= 1
    /\ (ops.updates = 1 => (ops.lookups = 1 /\ user # None /\ user[1].role # "admin"))
    /\ (outcome = "UPDATE_FAILED"
          => /\ success = "False"
             /\ modified = 0
             /\ ops.lookups = 1
             /\ ops.updates = 1
             /\ (pc = "EXITED" => exitCode = "1"))

\* the record was deleted between the lookup and the update
C9_Witness ==
    /\ pc = "END"
    /\ outcome = "UPDATE_FAILED"
    /\ user[1].role = "instructor"
    /\ target = 0
    /\ ops.lookups = 1
    /\ ops.updates = 1

\* the states of an invocation, in order
Stages == << {"MAIN"}, {"START"}, {"CONFIG_RESOLVED"}, {"CONNECTED"},
             {"RECORD_LOOKED_UP"}, Returns, {"CONNECTION_CLOSED"}, {"END"},
             {"EXITED"} >>

Stage(p) == CHOOSE i \in DOMAIN Stages : p \in Stages[i]

\* C10: an invocation moves forward only, one state at a time, through
\* START, CONFIG_RESOLVED, CONNECTED, RECORD_LOOKED_UP, one of the four
\* results, CONNECTION_CLOSED, END; a failure (the URI missing, an exception
\* of the database client) takes it straight to CONNECTION_CLOSED with the
\* result False and the client closed; once the result is decided no
\* database call is made; and every invocation reaches END.
C10_Linear ==
    /\ [][pc' # pc =>
            /\ Stage(pc') > Stage(pc)
            /\ \/ Stage(pc') = Stage(pc) + 1
               \/ /\ pc \in {"START", "CONFIG_RESOLVED", "CONNECTED", "RECORD_LOOKED_UP"}
                  /\ pc' = "CONNECTION_CLOSED"
                  /\ outcome' \in {"CONFIG_MISSING", "EXCEPTION"}
               \/ /\ pc = "MAIN"
                  /\ pc' = "EXITED"
                  /\ Len(argv) < 2]_vars
    /\ [][(outcome = "none" /\ outcome' \in {"CONFIG_MISSING", "EXCEPTION"})
            => /\ pc' = "CONNECTION_CLOSED"
               /\ success' = "False"
               /\ client' # "open"]_vars
    /\ [][outcome # "none"
            => /\ outcome' = outcome
               /\ success' = success
               /\ ops'.connects = ops.connects
               /\ ops'.lookups = ops.lookups
               /\ ops'.updates = ops.updates]_vars
    /\ [](pc = "END" => (success \in {"True", "False"}
                         /\ (success = "True" <=> outcome \in {"ALREADY_ADMIN", "UPDATED"})))
    /\ [](pc = "START" => <>(pc = "END"))

\* an exception of the lookup, and the invocation at END with the result False
C10_Witness ==
    /\ pc = "END"
    /\ outcome = "EXCEPTION"
    /\ ops.lookups = 1
    /\ ops.updates = 0
    /\ success = "False"
    /\ client = "closed"

====
